---- MODULE Spec2Model ----
(***************************************************************************)
(* Model of suffine: suffix-array construction over UTF-8 text             *)
(* (src/src/build.rs) and the Index / MultiDocIndex query layer           *)
(* (src/src/index.rs).  Texts are sequences of byte values; offsets are   *)
(* 0-based as in the source, sequences are 1-based as in TLA+.             *)
(***************************************************************************)
EXTENDS Integers, Sequences, FiniteSets, TLC

\* ---------------------------------------------------------------- bounds
MaxLen == 6         \* longest generated text, in bytes
MaxBlock == 2       \* largest block_size below u32::MAX that is tried
MaxQueryLen == 2    \* longest generated query that need not occur in the text
MaxSubLen == 5      \* longest substring of the text used as a query
MaxForeignLen == 3  \* longest text paired with a buffer it was not built from
MaxForeignEntries == 2  \* most u32 entries of such a buffer
MaxLegacyLen == 3   \* longest document added to the lib.rs builder, in bytes
MaxLegacyDocs == 2  \* most documents added to the lib.rs builder

\* ------------------------------------------------------- program constants
\* u32::MAX.  TLC's integers are 32-bit signed, so the largest value they hold
\* stands for it; every length and offset of the model is far below either.
U32Max == 2147483647
NewlineDelim == 10
FOOTER_SIZE == 12   \* MultiDocIndex::from_bytes: three u32

NoneVal == 0 - 1    \* Option::None of an Option<usize>

\* ------------------------------------------------------------ byte strings
Min(S) == CHOOSE x \in S : \A y \in S : x <= y

Slice(t, a, b) == SubSeq(t, a + 1, b)          \* t[a..b]
SliceFrom(t, a) == SubSeq(t, a + 1, Len(t))    \* t[a..]

\* str::is_char_boundary: 0 and len are boundaries, anything beyond len is
\* not, otherwise the byte must not be a continuation byte 10xxxxxx.
IsCharBoundary(t, i) ==
    \/ i = 0
    \/ i = Len(t)
    \/ (i > 0 /\ i < Len(t) /\ ~(t[i + 1] \in 128..191))

\* Byte-wise lexicographic order on byte strings (Ord for [u8] / str).
BytesLess(s, t) ==
    LET n == IF Len(s) < Len(t) THEN Len(s) ELSE Len(t)
        d == {k \in 1..n : s[k] # t[k]}
    IN  IF d = {} THEN Len(s) < Len(t) ELSE s[Min(d)] < t[Min(d)]

BytesLeq(s, t) == s = t \/ BytesLess(s, t)

StartsWith(t, q) == Len(q) <= Len(t) /\ SubSeq(t, 1, Len(q)) = q

\* str::find: byte offset of the first occurrence, or None.
Find(hay, needle) ==
    LET S == {i \in 0..(Len(hay) - Len(needle)) :
                 Slice(hay, i, i + Len(needle)) = needle}
    IN  IF S = {} THEN NoneVal ELSE Min(S)

Contains(hay, needle) == Find(hay, needle) # NoneVal

\* ------------------------------------------------------------------ inputs
CharA == <<97>>
CharB == <<98>>
CharE == <<195, 169>>          \* U+00E9, two bytes
Chars == {CharA, CharB, CharE}

RECURSIVE Utf8Strings(_)
Utf8Strings(n) ==
    {<<>>} \cup UNION {{c \o s : s \in Utf8Strings(n - Len(c))} :
                          c \in {x \in Chars : Len(x) <= n}}

\* "I scream, you scream, we all scream for ice cream!"
ScreamText ==
    <<73, 32, 115, 99, 114, 101, 97, 109, 44, 32, 121, 111, 117, 32, 115, 99,
      114, 101, 97, 109, 44, 32, 119, 101, 32, 97, 108, 108, 32, 115, 99, 114,
      101, 97, 109, 32, 102, 111, 114, 32, 105, 99, 101, 32, 99, 114, 101, 97,
      109, 33>>
CreamQuery == <<99, 114, 101, 97, 109>>
\* "alpha\nbeta\ngamma"
AlphaText ==
    <<97, 108, 112, 104, 97, 10, 98, 101, 116, 97, 10, 103, 97, 109, 109, 97>>

\* "bbbbb\u{e9}b": a run of one character ahead of a two-byte character
RunText == <<98, 98, 98, 98, 98, 195, 169, 98>>

Texts == Utf8Strings(MaxLen) \cup {ScreamText, AlphaText, RunText}
BlockSizes == (0..MaxBlock) \cup {U32Max}
Delims == {97, 233, NewlineDelim}     \* code points: 'a', U+00E9, '\n'

\* Boundary-aligned substrings of t of at most MaxSubLen bytes.
Substrings(t) ==
    {Slice(t, a, b) : <<a, b>> \in
        {p \in (0..Len(t)) \X (0..Len(t)) :
            /\ p[1] < p[2] /\ p[2] - p[1] <= MaxSubLen
            /\ IsCharBoundary(t, p[1]) /\ IsCharBoundary(t, p[2])}}

Queries(t) == Utf8Strings(MaxQueryLen) \cup Substrings(t)

\* ------------------------------------------------------------ build.rs
\* SuffixTable::new(text).table(): all byte offsets 0..len, in suffix order.
RECURSIVE SortSuffixes(_, _)
SortSuffixes(t, S) ==
    IF S = {} THEN <<>>
    ELSE LET m == CHOOSE x \in S :
                     \A y \in S : BytesLeq(SliceFrom(t, x), SliceFrom(t, y))
         IN  <<m>> \o SortSuffixes(t, S \ {m})

SuffixTable(t) == SortSuffixes(t, 0..(Len(t) - 1))

BuildSuffixArrayInMemoryLenInclusive(t, len) ==
    SelectSeq(SuffixTable(t), LAMBDA x : x <= len /\ IsCharBoundary(t, x))

BuildSuffixArrayInMemoryNoLen(t, len) ==
    SelectSeq(SuffixTable(t), LAMBDA x : IsCharBoundary(t, x))

\* build_suffix_array_in_memory: the values handed to buffer.write, in order.
BuildSuffixArrayInMemory(t, len) ==
    SelectSeq(SuffixTable(t), LAMBDA x : x < len /\ IsCharBoundary(t, x))

\* build_suffix_array when text.len() <= block_size: nothing for the empty
\* text, 0 for a one-byte text, else the in-memory sort of the whole text.
BuildUnblocked(t) ==
    IF Len(t) = 0 THEN <<>>
    ELSE IF Len(t) = 1 THEN <<0>>
    ELSE BuildSuffixArrayInMemory(t, Len(t))

\* byteorder write_u32::<NativeEndian> / read_u32::<NativeEndian> (little
\* endian host).
EncodeU32(x) ==
    <<x % 256, (x \div 256) % 256, (x \div 65536) % 256, (x \div 16777216) % 256>>

DecodeU32(b) == b[1] + 256 * b[2] + 65536 * b[3] + 16777216 * b[4]

RECURSIVE EncodeAll(_)
EncodeAll(xs) ==
    IF xs = <<>> THEN <<>> ELSE EncodeU32(Head(xs)) \o EncodeAll(Tail(xs))

RECURSIVE NextBoundary(_, _)
NextBoundary(t, i) ==
    IF IsCharBoundary(t, i) THEN i ELSE NextBoundary(t, i + 1)

\* calc_tail_len: the loop over (occ_pos, prefix_len).
RECURSIVE CalcTailLoop(_, _, _, _)
CalcTailLoop(blk, pat, occ_pos, prefix_len) ==
    LET i == Find(SliceFrom(blk, occ_pos), Slice(pat, 0, prefix_len))
    IN  IF i = NoneVal THEN prefix_len
        ELSE IF prefix_len = Len(pat) THEN NoneVal
        ELSE CalcTailLoop(blk, pat, occ_pos + i, NextBoundary(pat, prefix_len + 1))

CalcTailLen(blk, pat) == CalcTailLoop(blk, pat, 0, NextBoundary(pat, 1))

BlockEndNoSnap(t, bs, b) == IF b + bs < Len(t) THEN b + bs ELSE Len(t)

\* sort_blocks: end of the block that starts at begin.
BlockEnd(t, bs, b) ==
    NextBoundary(t, IF b + bs < Len(t) THEN b + bs ELSE Len(t))

\* sort_blocks: the pair (end, end_with_tail).
BlockRange(t, bs, b) ==
    LET e == BlockEnd(t, bs, b)
    IN  IF e = Len(t) THEN <<e, e>>
        ELSE LET l == CalcTailLen(Slice(t, b, e), SliceFrom(t, e))
             IN  IF l = NoneVal THEN <<Len(t), Len(t)>> ELSE <<e, e + l>>

\* Block::front_suffix of a cursor over text[begin..].
FrontSuffix(t, blk) == SliceFrom(SliceFrom(t, blk.begin), blk.front_index)

\* BinaryHeap<Reverse<Block>>::pop: a cursor no other cursor is smaller than.
HeapMin(t, h) ==
    {b \in h : \A c \in h : ~BytesLess(FrontSuffix(t, c), FrontSuffix(t, b))}

\* ------------------------------------------------------------ index.rs
\* binary_search(xs, pred): p[k] is pred(&xs[k-1]).
RECURSIVE BinarySearchLoop(_, _, _)
BinarySearchLoop(p, left, right) ==
    IF left < right
    THEN LET mid == (left + right) \div 2
         IN  IF p[mid + 1] THEN BinarySearchLoop(p, left, mid)
             ELSE BinarySearchLoop(p, mid + 1, right)
    ELSE left

BinarySearch(p) == BinarySearchLoop(p, 0, Len(p))

\* Index::positions: the first binary search, start.
SearchStart(t, sa, q) ==
    BinarySearch([k \in 1..Len(sa) |-> BytesLeq(q, SliceFrom(t, sa[k]))])

SearchEndNoStart(t, sa, q, start) ==
    LET rest == SubSeq(sa, start + 1, Len(sa))
    IN  BinarySearch([k \in 1..Len(rest) |-> ~StartsWith(SliceFrom(t, rest[k]), q)])

\* Index::positions: end = start + the second binary search over
\* suffix_array[start..].
SearchEnd(t, sa, q, start) ==
    LET rest == SubSeq(sa, start + 1, Len(sa))
    IN  start + BinarySearch(
            [k \in 1..Len(rest) |-> ~StartsWith(SliceFrom(t, rest[k]), q)])

\* Index::positions on an index whose suffix array is non-empty whenever the
\* text is.
Positions(t, sa, q) ==
    IF Len(t) = 0 \/ Len(q) = 0 \/ Len(q) > Len(t) THEN <<>>
    ELSE
      LET first_suffix == SliceFrom(t, sa[1])
          last_suffix == SliceFrom(t, sa[Len(sa)])
      IN  IF \/ (BytesLess(q, first_suffix) /\ ~StartsWith(first_suffix, q))
             \/ BytesLess(last_suffix, q)
          THEN <<>>
          ELSE
            LET start == SearchStart(t, sa, q)
                end == SearchEnd(t, sa, q, start)
            IN  IF start > end THEN <<>> ELSE SubSeq(sa, start + 1, end)

\* binary_search(xs, pred): the indices k for which xs[k-1] is read.
RECURSIVE BinarySearchVisits(_, _, _)
BinarySearchVisits(p, left, right) ==
    IF left < right
    THEN LET mid == (left + right) \div 2
         IN  {mid + 1} \cup (IF p[mid + 1] THEN BinarySearchVisits(p, left, mid)
                             ELSE BinarySearchVisits(p, mid + 1, right))
    ELSE {}

\* Index::positions indexes suffix_array[0] without a length check, and
\* slices the text at every entry it reads: an entry past the end of the
\* text or inside a character makes the slice panic.
PositionsPanics(t, sa, q) ==
    LET Bad(i) == ~IsCharBoundary(t, i)
        Suffix(i) == IF Bad(i) THEN <<>> ELSE SliceFrom(t, i)
        p1 == [k \in 1..Len(sa) |-> BytesLeq(q, Suffix(sa[k]))]
        start == BinarySearch(p1)
        rest == SubSeq(sa, start + 1, Len(sa))
        p2 == [k \in 1..Len(rest) |-> ~StartsWith(Suffix(rest[k]), q)]
    IN  /\ ~(Len(t) = 0 \/ Len(q) = 0 \/ Len(q) > Len(t))
        /\ \/ Len(sa) = 0
           \/ Bad(sa[1])
           \/ Bad(sa[Len(sa)])
           \/ /\ ~(\/ (BytesLess(q, Suffix(sa[1])) /\ ~StartsWith(Suffix(sa[1]), q))
                    \/ BytesLess(Suffix(sa[Len(sa)]), q))
              /\ \/ \E k \in BinarySearchVisits(p1, 0, Len(sa)) : Bad(sa[k])
                 \/ \E k \in BinarySearchVisits(p2, 0, Len(rest)) : Bad(rest[k])

\* Index::freq
Freq(t, sa, q) == Len(Positions(t, sa, q))

\* bytemuck::try_cast_slice::<u8, u32>: the bytes reinterpreted four at a time.
RECURSIVE DecodeAll(_)
DecodeAll(b) ==
    IF Len(b) < 4 THEN <<>>
    ELSE <<DecodeU32(SubSeq(b, 1, 4))>> \o DecodeAll(SubSeq(b, 5, Len(b)))

FromBytesNoCount(t, bytes, addr) ==
    IF Len(t) > U32Max THEN [err |-> "TextTooLong", suffix_array |-> <<>>]
    ELSE IF bytes # <<>> /\ (addr % 4 # 0 \/ Len(bytes) % 4 # 0)
    THEN [err |-> "InvalidIndex", suffix_array |-> <<>>]
    ELSE [err |-> "none", suffix_array |-> DecodeAll(bytes)]

FromBytesStrict(t, bytes, addr) ==
    IF Len(t) > U32Max THEN [err |-> "TextTooLong", suffix_array |-> <<>>]
    ELSE IF bytes # <<>> /\ (addr % 4 # 0 \/ Len(bytes) % 4 # 0)
    THEN [err |-> "InvalidIndex", suffix_array |-> <<>>]
    ELSE IF Len(bytes) \div 4 >= Len(t)
    THEN [err |-> "InvalidIndex", suffix_array |-> <<>>]
    ELSE [err |-> "none", suffix_array |-> DecodeAll(bytes)]

\* Index::from_bytes on a buffer whose address is addr modulo 4.
FromBytes(t, bytes, addr) ==
    IF Len(t) > U32Max THEN [err |-> "TextTooLong", suffix_array |-> <<>>]
    ELSE IF bytes # <<>> /\ (addr % 4 # 0 \/ Len(bytes) % 4 # 0)
    THEN [err |-> "InvalidIndex", suffix_array |-> <<>>]
    ELSE IF Len(bytes) \div 4 > Len(t)
    THEN [err |-> "InvalidIndex", suffix_array |-> <<>>]
    ELSE [err |-> "none", suffix_array |-> DecodeAll(bytes)]

\* char::len_utf8 and char::to_string (the UTF-8 encoding of a code point)
LenUtf8(c) == IF c < 128 THEN 1 ELSE IF c < 2048 THEN 2 ELSE IF c < 65536 THEN 3 ELSE 4

EncodeUtf8(c) ==
    IF c < 128 THEN <<c>>
    ELSE IF c < 2048 THEN <<192 + (c \div 64), 128 + (c % 64)>>
    ELSE IF c < 65536
    THEN <<224 + (c \div 4096), 128 + ((c \div 64) % 64), 128 + (c % 64)>>
    ELSE <<240 + (c \div 262144), 128 + ((c \div 4096) % 64),
           128 + ((c \div 64) % 64), 128 + (c % 64)>>

\* itertools sorted() on u32 values
RECURSIVE Insert(_, _)
Insert(xs, x) ==
    IF xs = <<>> THEN <<x>>
    ELSE IF x <= Head(xs) THEN <<x>> \o xs
    ELSE <<Head(xs)>> \o Insert(Tail(xs), x)

RECURSIVE Sorted(_)
Sorted(xs) == IF xs = <<>> THEN <<>> ELSE Insert(Sorted(Tail(xs)), Head(xs))

CalcOffsetsNoDelimLen(t, sa, d) ==
    <<0>> \o Sorted(Positions(t, sa, EncodeUtf8(d)))

\* MultiDocIndexBuilder::calc_offsets
CalcOffsets(t, sa, d) ==
    LET delim_str == EncodeUtf8(d)
        ps == Sorted(Positions(t, sa, delim_str))
    IN  <<0>> \o [k \in 1..Len(ps) |-> ps[k] + Len(delim_str)]

DocIdFromPosNoDecrement(offs, pos) ==
    IF \E k \in 1..Len(offs) : offs[k] = pos
    THEN (CHOOSE k \in 1..Len(offs) : offs[k] = pos) - 1
    ELSE Cardinality({k \in 1..Len(offs) : offs[k] < pos})

\* DocPositions::doc_id_from_pos: offsets.binary_search(&pos), Ok(x) => x,
\* Err(x) => x - 1 (None here when x - 1 underflows).
DocIdFromPos(offs, pos) ==
    IF \E k \in 1..Len(offs) : offs[k] = pos
    THEN (CHOOSE k \in 1..Len(offs) : offs[k] = pos) - 1
    ELSE Cardinality({k \in 1..Len(offs) : offs[k] < pos}) - 1

DocPositionsNoDelimCheck(t, sa, offs, d, q) ==
    LET ps == Positions(t, sa, q)
    IN  [k \in 1..Len(ps) |->
            LET doc_id == DocIdFromPos(offs, ps[k])
            IN  <<doc_id, ps[k] - offs[doc_id + 1]>>]

\* MultiDocIndex::doc_positions, drained: the pairs DocPositions::next yields.
DocPositions(t, sa, offs, d, q) ==
    IF Contains(q, EncodeUtf8(d)) THEN <<>>
    ELSE LET ps == Positions(t, sa, q)
         IN  [k \in 1..Len(ps) |->
                 LET doc_id == DocIdFromPos(offs, ps[k])
                 IN  <<doc_id, ps[k] - offs[doc_id + 1]>>]

\* MultiDocIndex::freq
MultiFreq(t, sa, d, q) ==
    IF Contains(q, EncodeUtf8(d)) THEN 0 ELSE Len(Positions(t, sa, q))

\* MultiDocIndex::num_docs
NumDocs(offs) == Len(offs)

DocDelimOneByte(t, offs, d, doc_id) ==
    IF doc_id >= Len(offs) THEN [some |-> FALSE, str |-> <<>>]
    ELSE LET b == offs[doc_id + 1]
             e == IF doc_id = Len(offs) - 1 THEN Len(t)
                  ELSE offs[doc_id + 2] - 1
         IN  [some |-> TRUE, str |-> Slice(t, b, e)]

\* MultiDocIndex::doc: [some |-> FALSE] is None.
Doc(t, offs, d, doc_id) ==
    IF doc_id >= Len(offs) THEN [some |-> FALSE, str |-> <<>>]
    ELSE LET b == offs[doc_id + 1]
             e == IF doc_id = Len(offs) - 1 THEN Len(t)
                  ELSE offs[doc_id + 2] - LenUtf8(d)
         IN  [some |-> TRUE, str |-> Slice(t, b, e)]

\* std::str::from_utf8: the number of bytes of the well-formed sequence that
\* starts b, or 0 when b does not start with one.
Utf8CharWidth(b) ==
    LET IsCont(k) == Len(b) >= k /\ b[k] >= 128 /\ b[k] <= 191
    IN  IF b = <<>> THEN 0
        ELSE IF b[1] < 128 THEN 1
        ELSE IF b[1] >= 194 /\ b[1] <= 223 THEN (IF IsCont(2) THEN 2 ELSE 0)
        ELSE IF b[1] >= 224 /\ b[1] <= 239
        THEN (IF /\ IsCont(2) /\ IsCont(3)
                 /\ (b[1] = 224 => b[2] >= 160)
                 /\ (b[1] = 237 => b[2] <= 159)
              THEN 3 ELSE 0)
        ELSE IF b[1] >= 240 /\ b[1] <= 244
        THEN (IF /\ IsCont(2) /\ IsCont(3) /\ IsCont(4)
                 /\ (b[1] = 240 => b[2] >= 144)
                 /\ (b[1] = 244 => b[2] <= 143)
              THEN 4 ELSE 0)
        ELSE 0

\* std::str::from_utf8(b).is_ok()
RECURSIVE FromUtf8Ok(_)
FromUtf8Ok(b) ==
    \/ b = <<>>
    \/ /\ Utf8CharWidth(b) > 0
       /\ FromUtf8Ok(SubSeq(b, Utf8CharWidth(b) + 1, Len(b)))

\* str::chars().count() of a valid string
RECURSIVE CharsCount(_)
CharsCount(b) ==
    IF b = <<>> THEN 0
    ELSE 1 + CharsCount(SubSeq(b, Utf8CharWidth(b) + 1, Len(b)))

\* str::chars().last().unwrap() of a valid string of one character
DecodeUtf8(b) ==
    IF Len(b) = 1 THEN b[1]
    ELSE IF Len(b) = 2 THEN (b[1] - 192) * 64 + (b[2] - 128)
    ELSE IF Len(b) = 3
    THEN (b[1] - 224) * 4096 + (b[2] - 128) * 64 + (b[3] - 128)
    ELSE (b[1] - 240) * 262144 + (b[2] - 128) * 4096 + (b[3] - 128) * 64
         + (b[4] - 128)

\* A MultiDocIndex value; this one stands for "none returned".
NoMultiDocIndex == [suffix_array |-> <<>>, offsets |-> <<>>, delimiter |-> NoneVal]

MultiToBytesCharCount(sa, offs, d) ==
    EncodeAll(sa) \o EncodeAll(offs) \o EncodeUtf8(d)
        \o EncodeAll(<<Len(sa), Len(offs), 1>>)

\* MultiDocIndexBuilder::build_to_writer: body, then footer.
MultiToBytes(sa, offs, d) ==
    EncodeAll(sa) \o EncodeAll(offs) \o EncodeUtf8(d)
        \o EncodeAll(<<Len(sa), Len(offs), Len(EncodeUtf8(d))>>)

\* MultiDocIndex::from_bytes on a buffer whose address is addr modulo 4.
MultiFromBytes(t, bytes, addr) ==
    IF Len(bytes) < FOOTER_SIZE
    THEN \* bytes.len() - FOOTER_SIZE underflows, or the slice start is past the end
         [err |-> "panic", index |-> NoMultiDocIndex]
    ELSE
    LET footer == SliceFrom(bytes, Len(bytes) - FOOTER_SIZE)
        sa_len == DecodeU32(SubSeq(footer, 1, 4))
        offsets_len == DecodeU32(SubSeq(footer, 5, 8))
        delim_len == DecodeU32(SubSeq(footer, 9, 12))
        sa_size == 4 * sa_len
        offsets_size == 4 * offsets_len
        delim_size == delim_len
        index == FromBytes(t, Slice(bytes, 0, sa_size), addr)
        offsets_bytes == Slice(bytes, sa_size, sa_size + offsets_size)
        delim_bytes ==
            Slice(bytes, sa_size + offsets_size, sa_size + offsets_size + delim_size)
        Invalid == [err |-> "InvalidIndex", index |-> NoMultiDocIndex]
    IN  IF Len(bytes) # sa_size + offsets_size + delim_size + FOOTER_SIZE
        THEN Invalid
        ELSE IF index.err # "none"
        THEN [err |-> index.err, index |-> NoMultiDocIndex]
        ELSE IF (addr + sa_size) % 4 # 0 \/ Len(offsets_bytes) % 4 # 0
        THEN Invalid
        ELSE IF ~FromUtf8Ok(delim_bytes) THEN Invalid
        ELSE IF CharsCount(delim_bytes) # 1 THEN Invalid
        ELSE [err |-> "none",
              index |-> [suffix_array |-> index.suffix_array,
                         offsets |-> DecodeAll(offsets_bytes),
                         delimiter |-> DecodeUtf8(delim_bytes)]]

InvalidBlockSizeNever(bs) == FALSE

\* the block_size test of IndexBuilder::build_to_buffer
InvalidBlockSize(bs) == bs = 0

DropTempFileLeak(files, f) == files

\* Drop of a NamedTempFile: the file at its path is removed.
DropTempFile(files, f) == files \ {f}

\* ------------------------------------------------------------------ lib.rs
CharNul == <<0>>

\* Strings over "\0", "a" and U+00E9 of at most n bytes.
RECURSIVE LegacyStrings(_)
LegacyStrings(n) ==
    {<<>>} \cup UNION {{c \o s : s \in LegacyStrings(n - Len(c))} :
                          c \in {x \in {CharNul, CharA, CharE} : Len(x) <= n}}

LegacyTexts == LegacyStrings(MaxLegacyLen)

\* IndexBuilder::default
NoLegacyIndex == [concatenated_str |-> <<>>, doc_offsets |-> <<>>, st |-> <<>>]

\* IndexBuilder::add
LegacyAdd(b, t) ==
    [b EXCEPT !.doc_offsets = Append(@, Len(b.concatenated_str)),
              !.concatenated_str = @ \o t \o CharNul]

\* IndexBuilder::build
LegacyBuild(b) == [b EXCEPT !.st = SuffixTable(b.concatenated_str)]

\* the doc_id closure of Index::search: slice::binary_search on doc_offsets,
\* Ok(x) => x and Err(x) => x - 1
LegacyDocId(offs, p) ==
    IF \E k \in 1..Len(offs) : offs[k] = p
    THEN (CHOOSE k \in 1..Len(offs) : offs[k] = p) - 1
    ELSE Cardinality({k \in 1..Len(offs) : offs[k] < p}) - 1

\* Index::search of lib.rs
LegacySearch(ix, q) ==
    LET ps == IF ix.concatenated_str = <<>> THEN <<>>
              ELSE Positions(ix.concatenated_str, ix.st, q)
    IN  [k \in 1..Len(ps) |->
            LET d == LegacyDocId(ix.doc_offsets, ps[k])
            IN  <<d, ps[k] - ix.doc_offsets[d + 1]>>]

\* Index::document of lib.rs: [some |-> FALSE] is None.
LegacyDocument(ix, k) ==
    IF k < Len(ix.doc_offsets)
    THEN LET b == ix.doc_offsets[k + 1]
             e == IF k = Len(ix.doc_offsets) - 1
                  THEN Len(ix.concatenated_str) - 1
                  ELSE ix.doc_offsets[k + 2] - 1
         IN  [some |-> TRUE, str |-> Slice(ix.concatenated_str, b, e)]
    ELSE [some |-> FALSE, str |-> <<>>]

\* ------------------------------------------------------------------ state
VARIABLES
    text,          \* IndexBuilder.text
    block_size,    \* IndexBuilder.block_size
    pc,            \* position of the program
    sink,          \* which IntBuffer the running build writes to
    begin,         \* sort_blocks: begin
    heap,          \* the BinaryHeap of Block cursors
    vec,           \* VecWrapper.0
    writer,        \* bytes written to the io::Write sink
    suffix_array,  \* Index.suffix_array of the built index
    err,           \* the Err returned, or "none"
    query,         \* last query
    result,        \* slice returned by Index::positions
    count,         \* value returned by Index::freq / MultiDocIndex::freq
    loaded,        \* suffix_array of the Index returned by Index::from_bytes
    delimiter,     \* MultiDocIndex.delimiter (a code point)
    offsets,       \* MultiDocIndex.offsets
    pairs,         \* pairs yielded by MultiDocIndex::doc_positions
    doc_id,        \* argument of the last MultiDocIndex::doc
    doc_out,       \* value returned by the last MultiDocIndex::doc
    temp_files,    \* the NamedTempFiles that exist on disk, by block begin
    file,          \* bytes flushed to the current block's temporary file
    bytes_in,      \* the buffer handed to from_bytes
    addr,          \* its address modulo 4
    multi_loaded,  \* MultiDocIndex returned by MultiDocIndex::from_bytes
    lib            \* the Index of lib.rs

vars == <<text, block_size, pc, sink, begin, heap, vec, writer, suffix_array,
          err, query, result, count, loaded, delimiter, offsets, pairs,
          doc_id, doc_out, temp_files, file, bytes_in, addr, multi_loaded, lib>>

buildVars == <<begin, heap, vec, writer, sink>>
queryVars == <<query, result, count, pairs, doc_id, doc_out>>
multiVars == <<delimiter, offsets>>
spillVars == <<temp_files, file>>
bytesVars == <<bytes_in, addr, multi_loaded>>

Init ==
    /\ text \in Texts
    /\ block_size \in BlockSizes
    /\ pc = "start"
    /\ sink = "vec"
    /\ begin = 0
    /\ heap = {}
    /\ vec = <<>>
    /\ writer = <<>>
    /\ suffix_array = <<>>
    /\ err = "none"
    /\ query = <<>>
    /\ result = <<>>
    /\ count = 0
    /\ loaded = <<>>
    /\ delimiter = NewlineDelim      \* MultiDocIndexBuilder::new
    /\ offsets = <<>>
    /\ pairs = <<>>
    /\ doc_id = 0
    /\ doc_out = [some |-> FALSE, str |-> <<>>]
    /\ temp_files = {}
    /\ file = <<>>
    /\ bytes_in = <<>>
    /\ addr = 0
    /\ multi_loaded = NoMultiDocIndex
    /\ lib = NoLegacyIndex

\* IntBuffer::write of the values xs, in order, to the sink s.
WriteAll(s, xs) ==
    /\ vec' = IF s = "vec" THEN vec \o xs ELSE vec
    /\ writer' = IF s = "writer" THEN writer \o EncodeAll(xs) ELSE writer

\* The build returned Ok: build() wraps the vector in an Index,
\* build_to_writer_native_endian just returns.
Finished(s) ==
    /\ pc' = IF s = "vec" THEN "built" ELSE "written"
    /\ suffix_array' = IF s = "vec" THEN vec' ELSE suffix_array

\* IndexBuilder::build_to_buffer followed by build_suffix_array up to the
\* first block.
BuildToBuffer(s) ==
    /\ sink' = s
    /\ UNCHANGED <<text, block_size, spillVars, bytesVars, lib, heap, loaded, queryVars, multiVars>>
    /\ IF Len(text) > U32Max
       THEN /\ err' = "TextTooLong" /\ pc' = "failed"
            /\ UNCHANGED <<begin, vec, writer, suffix_array>>
       ELSE IF InvalidBlockSize(block_size)
       THEN /\ err' = "InvalidOption" /\ pc' = "failed"
            /\ UNCHANGED <<begin, vec, writer, suffix_array>>
       ELSE IF Len(text) <= 1 \/ Len(text) <= block_size
       THEN /\ WriteAll(s, BuildUnblocked(text))
            /\ Finished(s) /\ UNCHANGED <<begin, err>>
       ELSE /\ pc' = "sort" /\ begin' = 0
            /\ UNCHANGED <<vec, writer, suffix_array, err>>

\* IndexBuilder::build
Build == pc = "start" /\ BuildToBuffer("vec")

\* IndexBuilder::build_to_writer_native_endian, on the same builder: after
\* build() returned an Index, or after it refused the builder's option
BuildToWriter ==
    /\ \/ pc = "built"
       \/ pc = "failed" /\ err = "InvalidOption" /\ sink = "vec"
    /\ BuildToBuffer("writer")

\* The first half of an iteration of the loop of sort_blocks: the block's
\* NamedTempFile is created and the block's suffix array is written to it and
\* flushed.
SpillBlock ==
    /\ pc = "sort"
    /\ begin < Len(text)
    /\ LET r == BlockRange(text, block_size, begin)
           end == r[1]
           end_with_tail == r[2]
       IN  file' = EncodeAll(
               BuildSuffixArrayInMemory(Slice(text, begin, end_with_tail), end - begin))
    /\ temp_files' = temp_files \cup {begin}
    /\ pc' = "spilled"
    /\ UNCHANGED <<text, block_size, bytesVars, lib, buildVars, suffix_array, err,
                   loaded, queryVars, multiVars>>

\* NamedTempFile::new()? fails, or the file is created and a write or the flush
\* fails: the ? returns the error, dropping the file and the heap.
SpillFails ==
    /\ pc = "sort"
    /\ begin < Len(text)
    /\ \E created \in BOOLEAN :
          temp_files' = IF created THEN DropTempFile(temp_files \cup {begin}, begin)
                        ELSE temp_files
    /\ heap' = {}
    /\ err' = "Io"
    /\ pc' = "failed"
    /\ UNCHANGED <<text, block_size, file, bytesVars, lib, begin, vec, writer, sink,
                   suffix_array, loaded, queryVars, multiVars>>

\* file.reopen()? fails.
ReopenFails ==
    /\ pc = "spilled"
    /\ temp_files' = DropTempFile(temp_files, begin)
    /\ file' = <<>>
    /\ heap' = {}
    /\ err' = "Io"
    /\ pc' = "failed"
    /\ UNCHANGED <<text, block_size, bytesVars, lib, begin, vec, writer, sink,
                   suffix_array, loaded, queryVars, multiVars>>

\* The second half of the iteration: the file is reopened, the block's first
\* entry is read and the block is pushed; the NamedTempFile is dropped at the
\* end of the loop body.
SortBlock ==
    /\ pc = "spilled"
    /\ temp_files' = DropTempFile(temp_files, begin)
    /\ file' = <<>>
    /\ LET end == BlockRange(text, block_size, begin)[1]
       IN  IF file = <<>>
           THEN \* block.next().unwrap() on an empty spill file
                /\ pc' = "failed" /\ err' = "panic"
                /\ UNCHANGED <<begin, heap>>
           ELSE /\ heap' = heap \cup
                      {[begin |-> begin,
                        front_index |-> DecodeU32(SubSeq(file, 1, 4)),
                        reader |-> SubSeq(file, 5, Len(file))]}
                /\ begin' = end
                /\ pc' = IF end < Len(text) THEN "sort" ELSE "merge"
                /\ err' = err
    /\ UNCHANGED <<text, block_size, bytesVars, lib, sink, vec, writer,
                   suffix_array, loaded, queryVars, multiVars>>

\* One iteration of the loop of merge_blocks; the last one returns.
MergeStep ==
    /\ pc = "merge"
    /\ \E block \in HeapMin(text, heap) :
          LET idx == block.front_index + block.begin   \* u32 addition, far from wrapping
              popped == heap \ {block}
          IN  /\ WriteAll(sink, <<idx>>)
              /\ heap' = IF block.reader = <<>> THEN popped
                         ELSE popped \cup
                              {[begin |-> block.begin,
                                front_index |-> DecodeU32(SubSeq(block.reader, 1, 4)),
                                reader |-> SubSeq(block.reader, 5, Len(block.reader))]}
              /\ IF heap' = {} THEN Finished(sink)
                 ELSE pc' = pc /\ suffix_array' = suffix_array
    /\ UNCHANGED <<text, block_size, spillVars, bytesVars, lib, sink, begin, err, loaded, queryVars, multiVars>>

\* buffer.write(idx)? fails in merge_blocks: only an io::Write sink can fail,
\* after write_all has passed on none or some of the four bytes.
SinkWriteFails ==
    /\ pc = "merge"
    /\ sink = "writer"
    /\ \E block \in HeapMin(text, heap) : \E n \in 0..3 :
          writer' = writer \o SubSeq(EncodeU32(block.front_index + block.begin), 1, n)
    /\ heap' = {}
    /\ err' = "Io"
    /\ pc' = "failed"
    /\ UNCHANGED <<text, block_size, spillVars, bytesVars, lib, begin, vec, sink,
                   suffix_array, loaded, queryVars, multiVars>>

\* Index::positions on the built index
IndexPositions ==
    /\ pc = "built"
    /\ \E q \in Queries(text) :
          /\ query' = q
          /\ IF PositionsPanics(text, suffix_array, q)
             THEN pc' = "failed" /\ err' = "panic" /\ result' = result
             ELSE /\ pc' = "queried" /\ err' = err
                  /\ result' = Positions(text, suffix_array, q)
    /\ UNCHANGED <<text, block_size, spillVars, bytesVars, lib, buildVars, suffix_array, loaded, count, pairs,
                   doc_id, doc_out, multiVars>>

\* Index::freq on the built index
IndexFreq ==
    /\ pc = "built"
    /\ \E q \in Queries(text) :
          /\ query' = q
          /\ IF PositionsPanics(text, suffix_array, q)
             THEN pc' = "failed" /\ err' = "panic" /\ count' = count
             ELSE /\ pc' = "counted" /\ err' = err
                  /\ count' = Freq(text, suffix_array, q)
    /\ UNCHANGED <<text, block_size, spillVars, bytesVars, lib, buildVars, suffix_array, loaded, result, pairs,
                   doc_id, doc_out, multiVars>>

\* Index::from_bytes(text, b), b at an address that is a modulo 4
IndexFromBytesCall(b, a) ==
    /\ bytes_in' = b
    /\ addr' = a
    /\ LET r == FromBytes(text, b, a)
       IN  /\ err' = r.err
           /\ loaded' = r.suffix_array
           /\ pc' = IF r.err = "none" THEN "loaded" ELSE "failed"
    /\ UNCHANGED <<text, block_size, spillVars, multi_loaded, lib, buildVars,
                   suffix_array, queryVars, multiVars>>

\* Index::from_bytes(text, &buf) on the Vec<u8> the writer build filled; the
\* global allocator hands out word-aligned buffers.
IndexFromBytes ==
    /\ pc = "written"
    /\ IndexFromBytesCall(writer, 0)

\* MultiDocIndexBuilder::new(index).delimiter(d).build()
MultiDocBuild ==
    /\ pc = "built"
    /\ \E d \in Delims :
          /\ delimiter' = d
          /\ IF PositionsPanics(text, suffix_array, EncodeUtf8(d))
             THEN pc' = "failed" /\ err' = "panic" /\ offsets' = offsets
             ELSE /\ pc' = "multi" /\ err' = err
                  /\ offsets' = CalcOffsets(text, suffix_array, d)
    /\ UNCHANGED <<text, block_size, spillVars, bytesVars, lib, buildVars, suffix_array, loaded, queryVars>>

\* MultiDocIndexBuilder::build_to_writer_native_endian(&mut buf), on the
\* builder that built the MultiDocIndex
MultiDocBuildToWriter ==
    /\ pc = "multi"
    /\ bytes_in' = MultiToBytes(suffix_array,
                                CalcOffsets(text, suffix_array, delimiter), delimiter)
    /\ addr' = 0
    /\ pc' = "multiwritten"
    /\ UNCHANGED <<text, block_size, spillVars, multi_loaded, lib, buildVars,
                   suffix_array, loaded, err, queryVars, multiVars>>

\* MultiDocIndex::from_bytes(text, b), b at an address that is a modulo 4
MultiFromBytesCall(b, a) ==
    /\ bytes_in' = b
    /\ addr' = a
    /\ LET r == MultiFromBytes(text, b, a)
       IN  /\ err' = r.err
           /\ multi_loaded' = r.index
           /\ pc' = IF r.err = "none" THEN "multiloaded" ELSE "failed"
    /\ UNCHANGED <<text, block_size, spillVars, lib, buildVars,
                   suffix_array, loaded, queryVars, multiVars>>

\* MultiDocIndex::from_bytes(text, &buf)
MultiDocFromBytes ==
    /\ pc = "multiwritten"
    /\ MultiFromBytesCall(bytes_in, addr)

\* MultiDocIndex::doc_positions(q), iterated to the end
MultiDocPositions ==
    /\ pc = "multi"
    /\ \E q \in Queries(text) :
          /\ query' = q
          /\ IF /\ ~Contains(q, EncodeUtf8(delimiter))
                /\ \/ PositionsPanics(text, suffix_array, q)
                   \/ \E k \in 1..Len(Positions(text, suffix_array, q)) :
                         DocIdFromPos(offsets, Positions(text, suffix_array, q)[k]) < 0
             THEN pc' = "failed" /\ err' = "panic" /\ pairs' = pairs
             ELSE /\ pc' = "multiqueried" /\ err' = err
                  /\ pairs' = DocPositions(text, suffix_array, offsets, delimiter, q)
    /\ UNCHANGED <<text, block_size, spillVars, bytesVars, lib, buildVars, suffix_array, loaded, result, count,
                   doc_id, doc_out, multiVars>>

\* MultiDocIndex::freq(q)
MultiDocFreq ==
    /\ pc = "multi"
    /\ \E q \in Queries(text) :
          /\ query' = q
          /\ IF ~Contains(q, EncodeUtf8(delimiter))
                /\ PositionsPanics(text, suffix_array, q)
             THEN pc' = "failed" /\ err' = "panic" /\ count' = count
             ELSE /\ pc' = "multicounted" /\ err' = err
                  /\ count' = MultiFreq(text, suffix_array, delimiter, q)
    /\ UNCHANGED <<text, block_size, spillVars, bytesVars, lib, buildVars, suffix_array, loaded, result, pairs,
                   doc_id, doc_out, multiVars>>

\* MultiDocIndex::doc(k), for k up to one past the last document
MultiDocDoc ==
    /\ pc = "multi"
    /\ \E k \in 0..(NumDocs(offsets) + 1) :
          /\ doc_id' = k
          /\ doc_out' = Doc(text, offsets, delimiter, k)
    /\ pc' = "docread"
    /\ UNCHANGED <<text, block_size, spillVars, bytesVars, lib, buildVars, suffix_array, loaded, err, query,
                   result, count, pairs, multiVars>>

Next ==
    \/ Build
    \/ BuildToWriter
    \/ SpillBlock
    \/ SpillFails
    \/ ReopenFails
    \/ SortBlock
    \/ MergeStep
    \/ SinkWriteFails
    \/ IndexPositions
    \/ IndexFreq
    \/ IndexFromBytes
    \/ MultiDocBuild
    \/ MultiDocBuildToWriter
    \/ MultiDocFromBytes
    \/ MultiDocPositions
    \/ MultiDocFreq
    \/ MultiDocDoc

Spec == Init /\ [][Next]_vars

\* ------------------------------- from_bytes on buffers from somewhere else
ForeignTexts == Utf8Strings(MaxForeignLen)
ForeignEntries == 0..(MaxForeignLen + 1)

RECURSIVE ForeignArrays(_)
ForeignArrays(n) ==
    IF n = 0 THEN {<<>>}
    ELSE ForeignArrays(n - 1) \cup
         {Append(xs, x) : xs \in ForeignArrays(n - 1), x \in ForeignEntries}

\* whole arrays of u32, and the same with one byte more
ForeignBuffers ==
    {EncodeAll(xs) \o r : xs \in ForeignArrays(MaxForeignEntries), r \in {<<>>, <<0>>}}

\* where a &[u8] may start, modulo the alignment of u32
Addrs == 0..3

\* Index::from_bytes is given only the text.
InitFromBytes ==
    /\ text \in ForeignTexts
    /\ block_size = U32Max
    /\ pc = "start"
    /\ sink = "vec"
    /\ begin = 0
    /\ heap = {}
    /\ vec = <<>>
    /\ writer = <<>>
    /\ suffix_array = <<>>
    /\ err = "none"
    /\ query = <<>>
    /\ result = <<>>
    /\ count = 0
    /\ loaded = <<>>
    /\ delimiter = NewlineDelim
    /\ offsets = <<>>
    /\ pairs = <<>>
    /\ doc_id = 0
    /\ doc_out = [some |-> FALSE, str |-> <<>>]
    /\ temp_files = {}
    /\ file = <<>>
    /\ bytes_in = <<>>
    /\ addr = 0
    /\ multi_loaded = NoMultiDocIndex
    /\ lib = NoLegacyIndex

\* Index::from_bytes(text, bytes) on any buffer
IndexFromForeignBytes ==
    /\ pc = "start"
    /\ \E b \in ForeignBuffers : \E a \in Addrs : IndexFromBytesCall(b, a)

\* Index::positions on the Index that from_bytes returned
LoadedPositions ==
    /\ pc = "loaded"
    /\ \E q \in Utf8Strings(MaxQueryLen) :
          /\ query' = q
          /\ IF PositionsPanics(text, loaded, q)
             THEN pc' = "failed" /\ err' = "panic" /\ result' = result
             ELSE /\ pc' = "queried" /\ err' = err
                  /\ result' = Positions(text, loaded, q)
    /\ UNCHANGED <<text, block_size, spillVars, bytesVars, lib, buildVars,
                   suffix_array, loaded, count, pairs, doc_id, doc_out, multiVars>>

NextFromBytes ==
    \/ IndexFromForeignBytes
    \/ LoadedPositions

SpecFromBytes == InitFromBytes /\ [][NextFromBytes]_vars

\* delimiter bytes: none, "\n", U+00E9, half of U+00E9, and "ab"
ForeignDelims == {<<>>, <<NewlineDelim>>, CharE, <<195>>, CharA \o CharB}

\* buffers too short for a footer, and bodies of up to one entry and one
\* offset followed by footers that may or may not describe them
MultiForeignBuffers ==
    {[k \in 1..n |-> 0] : n \in 0..(FOOTER_SIZE - 1)} \cup
    {EncodeAll(sa) \o EncodeAll(offs) \o d \o EncodeAll(<<n1, n2, n3>>) :
        sa \in ForeignArrays(1), offs \in {<<>>, <<0>>}, d \in ForeignDelims,
        n1 \in 0..1, n2 \in 0..1, n3 \in 0..2}

\* MultiDocIndex::from_bytes(text, bytes) on any buffer
MultiFromForeignBytes ==
    /\ pc = "start"
    /\ \E b \in MultiForeignBuffers : \E a \in Addrs : MultiFromBytesCall(b, a)

NextMultiFromBytes == MultiFromForeignBytes

SpecMultiFromBytes == InitFromBytes /\ [][NextMultiFromBytes]_vars

\* ---------------------------------------------------- lib.rs, the old API
\* IndexBuilder::new()
InitLegacy ==
    /\ text = <<>>
    /\ block_size = U32Max
    /\ pc = "lib_new"
    /\ sink = "vec"
    /\ begin = 0
    /\ heap = {}
    /\ vec = <<>>
    /\ writer = <<>>
    /\ suffix_array = <<>>
    /\ err = "none"
    /\ query = <<>>
    /\ result = <<>>
    /\ count = 0
    /\ loaded = <<>>
    /\ delimiter = NewlineDelim
    /\ offsets = <<>>
    /\ pairs = <<>>
    /\ doc_id = 0
    /\ doc_out = [some |-> FALSE, str |-> <<>>]
    /\ temp_files = {}
    /\ file = <<>>
    /\ bytes_in = <<>>
    /\ addr = 0
    /\ multi_loaded = NoMultiDocIndex
    /\ lib = NoLegacyIndex

legacyFixed == <<block_size, sink, begin, heap, vec, writer, suffix_array, err,
                 result, count, loaded, delimiter, offsets, temp_files, file,
                 bytes_in, addr, multi_loaded>>

\* index_builder.add(&text)
LegacyIndexAdd ==
    /\ pc = "lib_new"
    /\ Len(lib.doc_offsets) < MaxLegacyDocs
    /\ \E t \in LegacyTexts :
          /\ text' = t
          /\ lib' = LegacyAdd(lib, t)
    /\ UNCHANGED <<pc, query, pairs, doc_id, doc_out, legacyFixed>>

\* index_builder.build()
LegacyIndexBuild ==
    /\ pc = "lib_new"
    /\ lib' = LegacyBuild(lib)
    /\ pc' = "lib_built"
    /\ UNCHANGED <<text, query, pairs, doc_id, doc_out, legacyFixed>>

\* index.search(q), for the empty query, the last document added and the
\* one-character strings
LegacyIndexSearch ==
    /\ pc = "lib_built"
    /\ \E q \in {<<>>, text, CharNul, CharA, CharE} :
          /\ query' = q
          /\ pairs' = LegacySearch(lib, q)
    /\ pc' = "lib_searched"
    /\ UNCHANGED <<text, lib, doc_id, doc_out, legacyFixed>>

\* index.document(k), for k up to one past the last document
LegacyIndexDocument ==
    /\ pc = "lib_built"
    /\ \E k \in 0..Len(lib.doc_offsets) :
          /\ doc_id' = k
          /\ doc_out' = LegacyDocument(lib, k)
    /\ pc' = "lib_document"
    /\ UNCHANGED <<text, lib, query, pairs, legacyFixed>>

NextLegacy ==
    \/ LegacyIndexAdd
    \/ LegacyIndexBuild
    \/ LegacyIndexSearch
    \/ LegacyIndexDocument

SpecLegacy == InitLegacy /\ [][NextLegacy]_vars

\* ================================================================ claims
Range(xs) == {xs[k] : k \in 1..Len(xs)}

\* The ordered list of the UTF-8 boundaries of t in [0, |t|).
RECURSIVE BoundaryList(_, _)
BoundaryList(t, i) ==
    IF i >= Len(t) THEN <<>>
    ELSE (IF IsCharBoundary(t, i) THEN <<i>> ELSE <<>>) \o BoundaryList(t, i + 1)

\* The suffix array the finished build emitted, whichever sink it wrote to.
Emitted == IF pc = "written" THEN DecodeAll(writer) ELSE suffix_array
BuildDone == pc \in {"built", "written"}
Blocked == block_size >= 1 /\ block_size < Len(text) /\ Len(text) >= 2

\* C1 (block independence): the suffix array a finished build emitted, for any
\* block_size >= 1, is the one the single in-memory sort of the whole text emits.
C1_BlockIndependence == BuildDone => Emitted = BuildUnblocked(text)

\* C2 (suffix ordering): consecutive entries of the emitted suffix array are
\* strictly increasing in byte-wise suffix order.
C2_SuffixOrdering ==
    BuildDone =>
        \A i \in 1..(Len(Emitted) - 1) :
            BytesLess(SliceFrom(text, Emitted[i]), SliceFrom(text, Emitted[i + 1]))

\* C3 (completeness): sorted numerically, the emitted suffix array is the list
\* of all UTF-8 boundaries of the text below its length, each exactly once;
\* nothing for the empty text and <<0>> for a one-byte text.
C3_Completeness ==
    BuildDone =>
        /\ Sorted(Emitted) = BoundaryList(text, 0)
        /\ (Len(text) = 0 => Emitted = <<>>)
        /\ (Len(text) = 1 => Emitted = <<0>>)

C3_Witness ==
    /\ pc = "built" /\ Blocked
    /\ Len(suffix_array) >= 3 /\ Len(suffix_array) < Len(text)

\* What the search claims expect: the boundary-aligned byte-for-byte
\* occurrences of q, none for an empty q or one longer than the text.
PositionsNaive(t, q) ==
    IF q = <<>> \/ Len(q) > Len(t) THEN <<>>
    ELSE SelectSeq(BoundaryList(t, 0),
                   LAMBDA i : /\ i + Len(q) <= Len(t)
                              /\ IsCharBoundary(t, i + Len(q))
                              /\ Slice(t, i, i + Len(q)) = q)

\* C4 (search correctness): positions(q), sorted, is the list of the
\* boundary-aligned occurrences of q (empty for an empty, too long or absent
\* q), and freq(q) is its length.
C4_SearchCorrect ==
    /\ pc = "queried" => Sorted(result) = PositionsNaive(text, query)
    /\ pc = "counted" => count = Len(PositionsNaive(text, query))

\* C4 restricted to the index of the single in-memory sort (not a claim of
\* its own: it shows where C4 does hold).
SearchCorrectUnblocked == ~Blocked => C4_SearchCorrect

\* C5 (literal scenario 1) as stated: "cream" in the scream text is found at
\* 2, 14, 29, 45.
C5_Original ==
    (pc = "queried" /\ text = ScreamText /\ query = CreamQuery)
        => Sorted(result) = <<2, 14, 29, 45>>

\* C5 amended: "cream" in the scream text is found at 3, 15, 30, 44.
C5_Amended ==
    (pc = "queried" /\ text = ScreamText /\ query = CreamQuery)
        => Sorted(result) = <<3, 15, 30, 44>>

C5_Witness ==
    /\ pc = "queried" /\ text = ScreamText /\ query = CreamQuery
    /\ Len(result) = 4

\* The documents of t: the pieces between the occurrences of the delimiter.
RECURSIVE Split(_, _)
Split(t, ds) ==
    LET i == Find(t, ds)
    IN  IF i = NoneVal THEN <<t>>
        ELSE <<Slice(t, 0, i)>> \o Split(SliceFrom(t, i + Len(ds)), ds)

Documents == Split(text, EncodeUtf8(delimiter))

\* C6 (multi-doc partition): num_docs is the number of documents, doc(k) is
\* the k-th document without its delimiter, doc(k) is none from num_docs on.
C6_Partition ==
    /\ pc = "multi" => NumDocs(offsets) = Len(Documents)
    /\ pc = "docread" =>
          doc_out = IF doc_id < Len(Documents)
                    THEN [some |-> TRUE, str |-> Documents[doc_id + 1]]
                    ELSE [some |-> FALSE, str |-> <<>>]

C6_Witness ==
    /\ pc = "docread" /\ delimiter = 233 /\ Blocked
    /\ NumDocs(offsets) >= 3
    /\ doc_id = 1 /\ doc_out.some /\ doc_out.str = <<>>

\* The pairs (k, p) with q at offset p of document k.
ExpectedPairs(q) ==
    {<<k - 1, p>> : <<k, p>> \in
        {x \in (1..Len(Documents)) \X (0..Len(text)) :
            x[2] \in Range(PositionsNaive(Documents[x[1]], q))}}

\* C7 (multi-doc search): for a non-empty q that lies in some document, the
\* pairs doc_positions(q) yields are, each once, the pairs (k, p) with q at
\* offset p of document k (sorted, the two lists are then equal).
C7_MultiSearch ==
    (/\ pc = "multiqueried" /\ query # <<>>
     /\ \E k \in 1..Len(Documents) : Contains(Documents[k], query))
        => /\ Range(pairs) = ExpectedPairs(query)
           /\ Len(pairs) = Cardinality(ExpectedPairs(query))

\* C7 restricted to the index of the single in-memory sort.
MultiSearchUnblocked == ~Blocked => C7_MultiSearch

\* The document part of literal scenario 4: three documents alpha, beta, gamma.
AlphaDocs ==
    pc = "multi" =>
        /\ NumDocs(offsets) = 3
        /\ Doc(text, offsets, delimiter, 0) = [some |-> TRUE, str |-> <<97, 108, 112, 104, 97>>]
        /\ Doc(text, offsets, delimiter, 1) = [some |-> TRUE, str |-> <<98, 101, 116, 97>>]
        /\ Doc(text, offsets, delimiter, 2) = [some |-> TRUE, str |-> <<103, 97, 109, 109, 97>>]

\* C8 (literal scenario 4) as stated: "alpha\nbeta\ngamma" split at newlines
\* has the documents alpha, beta, gamma, and doc_positions("a") yields
\* (0,0), (0,4), (1,1), (2,1), (2,4).
C8_Original ==
    (text = AlphaText /\ delimiter = NewlineDelim) =>
        /\ AlphaDocs
        /\ (pc = "multiqueried" /\ query = <<97>>) =>
              /\ Range(pairs) = {<<0, 0>>, <<0, 4>>, <<1, 1>>, <<2, 1>>, <<2, 4>>}
              /\ Len(pairs) = 5

\* C8 amended: the same, with "a" in beta at offset 3: doc_positions("a")
\* yields (0,0), (0,4), (1,3), (2,1), (2,4).
C8_Amended ==
    (text = AlphaText /\ delimiter = NewlineDelim) =>
        /\ AlphaDocs
        /\ (pc = "multiqueried" /\ query = <<97>>) =>
              /\ Range(pairs) = {<<0, 0>>, <<0, 4>>, <<1, 3>>, <<2, 1>>, <<2, 4>>}
              /\ Len(pairs) = 5

C8_Witness ==
    /\ text = AlphaText /\ delimiter = NewlineDelim
    /\ pc = "multiqueried" /\ query = <<97>> /\ Len(pairs) = 5

\* C9 (delimiter suppression): a query that contains the delimiter yields no
\* pair and has frequency 0, even where it occurs in the text.
C9_DelimiterSuppressed ==
    Contains(query, EncodeUtf8(delimiter)) =>
        /\ pc = "multiqueried" => pairs = <<>>
        /\ pc = "multicounted" => count = 0

C9_Witness ==
    /\ pc = "multiqueried"
    /\ Contains(query, EncodeUtf8(delimiter))
    /\ Len(query) > LenUtf8(delimiter)
    /\ Positions(text, suffix_array, query) # <<>>

\* C10 (index round trip): from_bytes accepts the bytes the writer build
\* wrote, and the index it returns has the suffix array of the index build()
\* returned for the same text and block size.
C10_RoundTrip ==
    /\ pc = "loaded" => loaded = suffix_array
    /\ err # "InvalidIndex"

C10_Witness ==
    /\ pc = "loaded" /\ Blocked
    /\ Len(loaded) >= 3 /\ Len(loaded) < Len(text)

\* C11 (MultiDocIndex round trip): MultiDocIndex::from_bytes accepts the
\* bytes build_to_writer_native_endian wrote for the text and delimiter, and
\* the value it returns has the suffix array, offsets and delimiter of the
\* MultiDocIndex that build() returned.
C11_MultiRoundTrip ==
    (offsets # <<>> /\ bytes_in # <<>>) =>
        /\ pc # "failed"
        /\ pc = "multiloaded" =>
              multi_loaded = [suffix_array |-> suffix_array, offsets |-> offsets,
                              delimiter |-> delimiter]

C11_Witness ==
    /\ pc = "multiloaded"
    /\ delimiter = 233
    /\ Len(multi_loaded.offsets) >= 2
    /\ Len(multi_loaded.suffix_array) >= 3

\* C12 (mismatched pairs are rejected): from_bytes returns an Index only for
\* the bytes that were built from the text, so every other buffer ends in
\* InvalidIndex, and no query on a returned Index panics.
C12_MismatchRejected ==
    /\ pc \in {"loaded", "queried"} => loaded = BuildUnblocked(text)
    /\ err # "panic"

\* The three numbers of the footer of a buffer of at least FOOTER_SIZE bytes.
FooterValues(b) == DecodeAll(SliceFrom(b, Len(b) - FOOTER_SIZE))

\* The delimiter bytes of a buffer whose length agrees with its footer.
DelimBytes(b) ==
    LET f == FooterValues(b)
    IN  Slice(b, 4 * f[1] + 4 * f[2], 4 * f[1] + 4 * f[2] + f[3])

\* The buffer is one that C13 says is rejected.
MultiMalformed(b) ==
    \/ Len(b) < FOOTER_SIZE
    \/ LET f == FooterValues(b)
       IN  \/ Len(b) # 4 * f[1] + 4 * f[2] + f[3] + FOOTER_SIZE
           \/ ~FromUtf8Ok(DelimBytes(b))
           \/ CharsCount(DelimBytes(b)) # 1

\* C13 (MultiDocIndex::from_bytes validation): a buffer of any length whose
\* length disagrees with its footer, or whose delimiter bytes are not one
\* UTF-8 character, makes from_bytes return InvalidIndex: no panic, no index.
C13_MultiValidation ==
    (pc # "start" /\ MultiMalformed(bytes_in)) =>
        (pc = "failed" /\ err = "InvalidIndex")

\* C14 as stated (Index::from_bytes size checks): InvalidIndex when the byte
\* length is not a multiple of 4 or the entry count exceeds |T|; otherwise an
\* Index whose suffix array is the u32 reinterpretation of the bytes.
C14_Original ==
    pc # "start" =>
        IF Len(bytes_in) % 4 # 0 \/ Len(bytes_in) \div 4 > Len(text)
        THEN err = "InvalidIndex" /\ loaded = <<>>
        ELSE err # "InvalidIndex" /\ loaded = DecodeAll(bytes_in)

\* C14, amended: a buffer that is not empty and does not start at a multiple
\* of 4 is rejected with InvalidIndex as well; every other buffer is treated
\* as stated.
C14_Amended ==
    pc # "start" =>
        IF \/ Len(bytes_in) % 4 # 0
           \/ Len(bytes_in) \div 4 > Len(text)
           \/ (bytes_in # <<>> /\ addr % 4 # 0)
        THEN err = "InvalidIndex" /\ loaded = <<>>
        ELSE err # "InvalidIndex" /\ loaded = DecodeAll(bytes_in)

C14_Witness ==
    /\ pc = "failed" /\ err = "InvalidIndex"
    /\ bytes_in # <<>> /\ addr % 4 # 0
    /\ Len(bytes_in) % 4 = 0 /\ Len(bytes_in) \div 4 <= Len(text)

\* C15 (zero block size is rejected): with block_size = 0 both build and
\* build_to_writer_native_endian end in InvalidOption, whatever the text,
\* with nothing written to either sink and no Index returned; with a
\* block_size of at least 1 InvalidOption never occurs.
C15_ZeroBlockRejected ==
    /\ block_size = 0 =>
          /\ pc \in {"start", "failed"}
          /\ pc = "failed" => err = "InvalidOption"
          /\ vec = <<>> /\ writer = <<>> /\ suffix_array = <<>>
    /\ block_size >= 1 => err # "InvalidOption"

C15_Witness ==
    /\ block_size = 0
    /\ text = <<>>
    /\ sink = "writer"
    /\ pc = "failed" /\ err = "InvalidOption"

\* The sink of the running build has received nothing.
SinkEmpty == IF sink = "vec" THEN vec = <<>> ELSE writer = <<>>

\* C16 (temporary-file release and failure isolation): a step in which
\* creating, writing, flushing or reopening a block's temporary file fails
\* ends the build with that I/O error while the sink is still empty; and
\* whenever a build is not in progress (it returned Ok, or failed at a block
\* or at a sink write of the merge) no temporary file it created is left.
C16_TempFilesReleased ==
    /\ [](pc \notin {"sort", "spilled", "merge"} => temp_files = {})
    /\ [][(SpillFails \/ ReopenFails) =>
             (pc' = "failed" /\ err' = "Io" /\ SinkEmpty' /\ temp_files' = {})]_vars

C16_Witness ==
    /\ pc = "failed" /\ err = "Io"
    /\ sink = "writer" /\ writer = <<>>
    /\ begin > 0
    /\ temp_files = {}

\* C17 (lib.rs, one document): after text is added as the only document and
\* the index is built, search("") is empty, document(0) is text, and
\* search(text) is exactly [(0, 0)] when text is not empty.
C17_LegacySingleDocument ==
    Len(lib.doc_offsets) = 1 =>
        /\ (pc = "lib_searched" /\ query = <<>>) => pairs = <<>>
        /\ (pc = "lib_searched" /\ query = text /\ text # <<>>) =>
              pairs = << <<0, 0>> >>
        /\ (pc = "lib_document" /\ doc_id = 0) =>
              doc_out = [some |-> TRUE, str |-> text]

\* The same for texts without a NUL character.
LegacyNoNul ==
    (\A k \in 1..Len(text) : text[k] # 0) => C17_LegacySingleDocument

\* The extended block [begin, end_with_tail) that the block being spilled
\* was sorted over.
SpilledBlock == Slice(text, begin, BlockRange(text, block_size, begin)[2])

\* C18 (tail-extension sufficiency): for the block just spilled, any two
\* of its offsets compare over the extended block as they do over the full
\* text, so the spilled sequence is in global suffix order.
C18_TailSufficient ==
    pc = "spilled" =>
        \A i, j \in Range(DecodeAll(file)) :
            i # j =>
                (BytesLess(SliceFrom(SpilledBlock, i), SliceFrom(SpilledBlock, j))
                 <=> BytesLess(SliceFrom(text, begin + i), SliceFrom(text, begin + j)))

\* C19 (no ties in the merge): the cursors in the heap have pairwise distinct
\* global front offsets, each inside its own block, their front suffixes are
\* never equal, and the sink holds no offset twice.
C19_NoTies ==
    pc = "merge" =>
        /\ \A b \in heap :
              /\ b.begin + b.front_index >= b.begin
              /\ b.begin + b.front_index < BlockRange(text, block_size, b.begin)[1]
        /\ \A b1, b2 \in heap :
              b1 # b2 =>
                  /\ b1.begin + b1.front_index # b2.begin + b2.front_index
                  /\ FrontSuffix(text, b1) # FrontSuffix(text, b2)
        /\ LET out == IF sink = "vec" THEN vec ELSE DecodeAll(writer)
           IN  \A k, l \in 1..Len(out) : out[k] = out[l] => k = l

C19_Witness ==
    /\ pc = "merge"
    /\ Cardinality(heap) >= 3
    /\ vec # <<>>
    /\ \E b \in heap : b.front_index > 0

\* C20 (hits never cross a document boundary): every pair (doc_id, pos) that
\* doc_positions yields for the absolute position p has O[doc_id] <= p and
\* pos = p - O[doc_id]; the match and the delimiter after it end no later
\* than the start of the next document; and the document reads q at pos.
C20_NoCrossing ==
    pc = "multiqueried" =>
        LET ps == Positions(text, suffix_array, query)
        IN  \A k \in 1..Len(pairs) :
                LET d == pairs[k][1]
                    pos == pairs[k][2]
                    p == ps[k]
                IN  /\ offsets[d + 1] <= p
                    /\ pos = p - offsets[d + 1]
                    /\ d + 1 < Len(offsets) =>
                          p + Len(query) + LenUtf8(delimiter) <= offsets[d + 2]
                    /\ Slice(Doc(text, offsets, delimiter, d).str,
                             pos, pos + Len(query)) = query

\* The same for indexes built in one block.
NoCrossingUnblocked == ~Blocked => C20_NoCrossing

\* The ranges [begin, end) of the blocks sort_blocks has pushed so far.
PushedRanges ==
    {<<b.begin, BlockRange(text, block_size, b.begin)[1]>> : b \in heap}

\* C21 (block tiling): while sort_blocks runs, the blocks pushed so far tile
\* [0, begin) end to end with non-empty ranges between UTF-8 boundaries; the
\* block being spilled is non-empty, ends at a boundary no later than |T| and
\* spills its own offset 0; every iteration moves begin forward without a
\* panic at the first read; and the merge starts with begin = |T|.
C21_BlockTiling ==
    /\ [](pc \in {"sort", "spilled"} =>
            /\ IsCharBoundary(text, begin)
            /\ (heap = {}) = (begin = 0)
            /\ \A r \in PushedRanges :
                  /\ r[1] < r[2]
                  /\ IsCharBoundary(text, r[1]) /\ IsCharBoundary(text, r[2])
                  /\ r[1] = 0 \/ \E s \in PushedRanges : s[2] = r[1]
                  /\ r[2] = begin \/ \E s \in PushedRanges : s[1] = r[2]
            /\ pc = "sort" => begin < Len(text))
    /\ [](pc = "spilled" =>
            LET end == BlockRange(text, block_size, begin)[1]
            IN  /\ begin < end /\ end <= Len(text)
                /\ IsCharBoundary(text, end)
                /\ 0 \in Range(DecodeAll(file)))
    /\ [](pc = "merge" => begin = Len(text))
    /\ [][SortBlock => (begin' > begin /\ err' = err /\ pc' \in {"sort", "merge"})]_vars

C21_Witness ==
    /\ pc = "spilled"
    /\ Cardinality(heap) >= 2
    /\ BlockRange(text, block_size, begin)[1] - begin > block_size
    /\ BlockRange(text, block_size, begin)[1] < Len(text)

\* freq(q) and the number of pairs doc_positions(q) yields are the same number.
CountListingAgree ==
    /\ pc = "multiqueried" =>
          Len(pairs) = MultiFreq(text, suffix_array, delimiter, query)
    /\ pc = "multicounted" =>
          count = Len(DocPositions(text, suffix_array, offsets, delimiter, query))

\* The number C22 says both are: 0 for an empty query or one that contains
\* the delimiter, else the number of occurrences of the query in the text.
ExpectedCount ==
    IF query = <<>> \/ Contains(query, EncodeUtf8(delimiter)) THEN 0
    ELSE Len(PositionsNaive(text, query))

\* C22 (count/listing agreement): freq(q) equals the number of pairs that
\* doc_positions(q) yields, and both are 0 when q is empty or contains the
\* delimiter and the number of occurrences of q in the text otherwise.
C22_CountListing ==
    /\ CountListingAgree
    /\ pc = "multiqueried" => Len(pairs) = ExpectedCount
    /\ pc = "multicounted" => count = ExpectedCount

\* C22 restricted to the index of the single in-memory sort.
CountListingUnblocked == ~Blocked => C22_CountListing

====
